---- MODULE Spec2Model ----
(***************************************************************************)
(* Weather ETL pipeline (src/etl.py): extract_weather_data,                *)
(* transform_weather_data, load_to_redshift and run_pipeline.              *)
(*                                                                         *)
(* Numbers are fixed-point: a measurement v stands for v / 1000, so that   *)
(* rounding to two decimals (multiples of 10) is not the identity.         *)
(* An absent value (None / NaN / NULL) is the empty sequence, a present    *)
(* value v is <<v>>.                                                       *)
(***************************************************************************)
EXTENDS Bags, FiniteSets, Integers, Sequences, TLC

VARIABLES
    target,     \* committed content of the warehouse table (a bag of rows)
    lpc,        \* per session: position inside load_to_redshift
    conn,       \* per session: "none" | "open" | "closed"
    staging,    \* per session: the temp table, [exists, rows]
    del,        \* per session: rows the open transaction has deleted
    ins,        \* per session: rows the open transaction has inserted
    records,    \* per session: the DataFrame rows handed to load_to_redshift
    outcome,    \* per session: "none" | "ok" | "raised"
    obs,        \* observer of the calls (what the caller saw before / after)
    rpc,        \* position inside run_pipeline
    raw,        \* the document returned by extract_weather_data
    df,         \* the DataFrame returned by transform_weather_data
    net,        \* "idle" | "inflight": the HTTP request
    exc,        \* the exception run_pipeline ended with: [stage, kind]
    began,      \* the table when the current run began
    trace       \* stages of the current run, in the order they started / ended

vars == <<target, lpc, conn, staging, del, ins, records, outcome, obs,
          rpc, raw, df, net, exc, began, trace>>

loadVars == <<target, lpc, conn, staging, del, ins, records, outcome, obs>>
runVars == <<rpc, raw, df, net, exc, began, trace>>

----------------------------------------------------------------------------
(* Bounds *)

\* longest records sequence handed to load_to_redshift by the load harness
MaxLen == 2
\* most hourly readings in one API document
MaxN == 2

----------------------------------------------------------------------------
(* Values *)

None == <<>>
Some(v) == <<v>>
IsNone(x) == x = None

\* the configured location label (config.py WEATHER_LOCATION_NAME)
LocationName == "Boston, MA"

\* no temp table in the session
NoStaging == [exists |-> FALSE, rows |-> EmptyBag]
\* no document yet
NoDoc == [absent |-> TRUE]

\* the natural key the DELETE ... USING statement joins on
KeyOf(row) == <<row.location_name, row.recorded_at>>

RECURSIVE SeqToBag(_)
SeqToBag(s) ==
    IF s = <<>> THEN EmptyBag
    ELSE SetToBag({Head(s)}) (+) SeqToBag(Tail(s))

SeqsUpTo(S, n) == UNION {[1..k -> S] : k \in 0..n}

Prefixes(s) == {SubSeq(s, 1, k) : k \in 0..Len(s)}

\* the rows of bag b that are in set S, with their multiplicities
BagOver(b, S) == [r \in DOMAIN b \cap S |-> b[r]]

BagSize(b) == BagCardinality(b)

----------------------------------------------------------------------------
(* The API document (RawObservationSet) and the DataFrame *)

HourlyKeys == {"time", "temperature_2m", "relative_humidity_2m",
               "precipitation", "wind_speed_10m", "weather_code"}

\* the measurement arrays transform_weather_data reads besides "time"
MeasureKeys == HourlyKeys \ {"time"}

Columns == {"recorded_at", "temperature_f", "humidity_pct", "precipitation_in",
            "wind_speed_mph", "weather_code", "location_name", "latitude",
            "longitude"}

\* A "time" entry is <<h, f>>: hour h written in spelling f of ISO-8601
\* (f = 0: "YYYY-MM-DDTHH:MM", f = 1: "YYYY-MM-DDTHH:MM:SS").
TimeEntries == {<<1, 0>>, <<2, 0>>, <<1, 1>>}

\* pd.to_datetime on one entry: the spelling is gone, the instant is left
ParseTime(e) == e[1]

to_datetime(col) == [i \in 1..Len(col) |-> ParseTime(col[i])]

\* pd.to_datetime guesses the format from the first entry; whether a column
\* in mixed spellings parses or raises depends on the pandas build
MixedSpelling(col) == \E i, j \in 1..Len(col) : col[i][2] # col[j][2]

\* round-half-to-even to two decimals (numpy's rule), on thousandths
Round2(v) ==
    LET q == v \div 10
        r == v % 10
    IN  IF r < 5 THEN q * 10
        ELSE IF r > 5 THEN (q + 1) * 10
        ELSE IF q % 2 = 0 THEN q * 10 ELSE (q + 1) * 10

\* Series.round: NaN stays NaN
RoundCell(x) == IF IsNone(x) THEN None ELSE Some(Round2(x[1]))

round(col) == [i \in 1..Len(col) |-> RoundCell(col[i])]

FrameLen(frame) == Len(frame.recorded_at)

DropRow_any(frame, i) ==
    IsNone(frame.temperature_f[i]) \/ IsNone(frame.precipitation_in[i])

\* how="all": a row goes when every column of the subset is null
DropRow(frame, i) ==
    IsNone(frame.temperature_f[i]) /\ IsNone(frame.precipitation_in[i])

\* the index labels dropna keeps, ascending
RECURSIVE KeptFrom(_, _)
KeptFrom(frame, i) ==
    IF i > FrameLen(frame) THEN <<>>
    ELSE IF DropRow(frame, i) THEN KeptFrom(frame, i + 1)
    ELSE <<i>> \o KeptFrom(frame, i + 1)

Take_positional(col, idx) == [j \in 1..Len(idx) |-> col[j]]

\* the entries of a column at the kept index labels
Take(col, idx) == [j \in 1..Len(idx) |-> col[idx[j]]]

dropna(frame) ==
    LET kept == KeptFrom(frame, 1)
    IN  [c \in Columns |-> Take(frame[c], kept)]

TransformError_measuresOnly(raw_data) ==
    IF "hourly" \notin DOMAIN raw_data THEN "KeyError"
    ELSE IF \E k \in HourlyKeys : k \notin DOMAIN raw_data.hourly THEN "KeyError"
    ELSE IF \E k, j \in MeasureKeys :
                Len(raw_data.hourly[k]) # Len(raw_data.hourly[j])
         THEN "ValueError"
    ELSE IF {"latitude", "longitude"} \subseteq DOMAIN raw_data THEN "none"
    ELSE "KeyError"

\* "KeyError", "ValueError" or "none": what building the DataFrame raises
TransformError(raw_data) ==
    IF "hourly" \notin DOMAIN raw_data THEN "KeyError"
    ELSE IF \E k \in HourlyKeys : k \notin DOMAIN raw_data.hourly THEN "KeyError"
    ELSE IF \E k \in MeasureKeys :
                Len(raw_data.hourly[k]) # Len(raw_data.hourly.time)
         THEN "ValueError"
    ELSE IF {"latitude", "longitude"} \subseteq DOMAIN raw_data THEN "none"
    ELSE "KeyError"

transform_weather_data(raw_data, location_name) ==
    LET hourly == raw_data.hourly
        n == Len(hourly.time)
        built == [recorded_at      |-> to_datetime(hourly.time),
                  temperature_f    |-> hourly.temperature_2m,
                  humidity_pct     |-> hourly.relative_humidity_2m,
                  precipitation_in |-> hourly.precipitation,
                  wind_speed_mph   |-> hourly.wind_speed_10m,
                  weather_code     |-> hourly.weather_code,
                  location_name    |-> [i \in 1..n |-> location_name],
                  latitude         |-> [i \in 1..n |-> raw_data.latitude],
                  longitude        |-> [i \in 1..n |-> raw_data.longitude]]
        live == dropna(built)
    IN  [live EXCEPT !.temperature_f    = round(@),
                     !.humidity_pct     = round(@),
                     !.precipitation_in = round(@),
                     !.wind_speed_mph   = round(@)]

\* no DataFrame yet
NoFrame == [c \in Columns |-> <<>>]

\* df.itertuples(index=False): one row per index label, all columns
itertuples(frame) ==
    [i \in 1..FrameLen(frame) |-> [c \in Columns |-> frame[c][i]]]

----------------------------------------------------------------------------
(* load_to_redshift: one session of the warehouse per call *)

Sessions == DOMAIN lpc

Range(f) == {f[i] : i \in DOMAIN f}

MatchingRows_none(tbl, stg) == EmptyBag

MatchingRows_hourOnly(tbl, stg) ==
    BagOver(tbl, {row \in DOMAIN tbl :
                     \E x \in DOMAIN stg : x.recorded_at = row.recorded_at})

\* DELETE FROM t USING staging WHERE the location_name and recorded_at agree
MatchingRows(tbl, stg) ==
    BagOver(tbl, {row \in DOMAIN tbl : \E x \in DOMAIN stg : KeyOf(x) = KeyOf(row)})

Committed_appendOnly(tbl, deleted, inserted) == tbl (+) inserted

\* the table once a transaction's deletes and inserts are committed
Committed(tbl, deleted, inserted) == (tbl (-) deleted) (+) inserted

RolledBack_keepsWrites(tbl, deleted, inserted) == (tbl (-) deleted) (+) inserted

\* the table once a transaction is rolled back
RolledBack(tbl, deleted, inserted) == tbl

TxnSteps == {"create", "insert", "delete", "copy"}

\* the order of the statements inside the try block
After_copyFirst(step) ==
    CASE step = "create" -> "insert"
      [] step = "insert" -> "copy"
      [] step = "copy"   -> "delete"
      [] step = "delete" -> "commit"

After(step) ==
    CASE step = "create" -> "insert"
      [] step = "insert" -> "delete"
      [] step = "delete" -> "copy"
      [] step = "copy"   -> "commit"

StagingOf_shared(s) == 1

\* whose relation "staging_weather_hourly" names in session s: CREATE TEMP
\* TABLE puts it in the session's own temporary schema
StagingOf(s) == s

\* where control goes from the except block: "raise" leaves through finally
AfterExcept_noFinally == "returned"

AfterExcept == "finally_exc"

OutcomeOf_swallowed(pos) == "ok"

\* how load_to_redshift ends: it returns after the try block ran through,
\* and the bare "raise" lets the exception out otherwise
OutcomeOf(pos) == IF pos = "finally" THEN "ok" ELSE "raised"

\* what a failing statement or commit raises, and what a failing connect or
\* rollback raises: psycopg's own classes, no wrapper class is defined
StatementError == "psycopg.Error"
ConnectionError == "psycopg.OperationalError"

\* nothing observed yet
NoObs ==
    [before |-> EmptyBag, failedAt |-> "", repeat |-> FALSE, retry |-> FALSE,
     base |-> EmptyBag, resupplied |-> {}, error |-> "", rollbacks |-> 0,
     overlap |-> FALSE, feed |-> "instants"]

\* the call itself: the caller hands over the DataFrame's rows
LoadCall(s, rows) ==
    /\ lpc[s] \in {"idle", "returned"}
    /\ lpc' = [lpc EXCEPT ![s] = "connect"]
    /\ records' = [records EXCEPT ![s] = rows]
    /\ outcome' = [outcome EXCEPT ![s] = "none"]
    /\ conn' = [conn EXCEPT ![s] = "none"]
    /\ obs' = [before     |-> target,
               failedAt   |-> "",
               repeat     |-> outcome[s] = "ok" /\ records[s] = rows,
               retry      |-> outcome[s] = "raised" /\ records[s] = rows,
               base       |-> IF outcome[s] = "raised" /\ records[s] = rows
                              THEN obs.before ELSE EmptyBag,
               resupplied |-> IF outcome[s] = "ok"
                              THEN {r \in Range(rows) :
                                      \E p \in Range(records[s]) :
                                          KeyOf(p) = KeyOf(r) /\ p # r}
                              ELSE {},
               error      |-> "",
               rollbacks  |-> 0,
               overlap    |-> obs.overlap
                              \/ \E t \in Sessions \ {s} :
                                     lpc[t] \notin {"idle", "returned"},
               feed       |-> obs.feed]
    /\ UNCHANGED <<target, staging, del, ins>>

\* psycopg.connect(**DB_CONFIG)
Connect(s) ==
    /\ lpc[s] = "connect"
    /\ conn' = [conn EXCEPT ![s] = "open"]
    /\ lpc' = [lpc EXCEPT ![s] = "create"]
    /\ UNCHANGED <<target, staging, del, ins, records, outcome, obs>>

\* the connection cannot be made: raised before the try block is entered
ConnectFails(s) ==
    /\ lpc[s] = "connect"
    /\ lpc' = [lpc EXCEPT ![s] = "returned"]
    /\ outcome' = [outcome EXCEPT ![s] = "raised"]
    /\ obs' = [obs EXCEPT !.failedAt = "connect", !.error = ConnectionError]
    /\ UNCHANGED <<target, conn, staging, del, ins, records>>

\* CREATE TEMP TABLE staging_t (LIKE t): the first statement opens the transaction
CreateStaging(s) ==
    /\ lpc[s] = "create"
    /\ conn' = [conn EXCEPT ![s] = "intxn"]
    /\ staging' = [staging EXCEPT ![StagingOf(s)] = [exists |-> TRUE, rows |-> EmptyBag]]
    /\ lpc' = [lpc EXCEPT ![s] = After("create")]
    /\ UNCHANGED <<target, del, ins, records, outcome, obs>>

\* cursor.executemany(insert_sql, rows)
InsertStaging(s) ==
    /\ lpc[s] = "insert"
    /\ staging' = [staging EXCEPT ![StagingOf(s)].rows = @ (+) SeqToBag(records[s])]
    /\ lpc' = [lpc EXCEPT ![s] = After("insert")]
    /\ UNCHANGED <<target, conn, del, ins, records, outcome, obs>>

\* DELETE FROM t USING staging_t ...
DeleteMatching(s) ==
    /\ lpc[s] = "delete"
    /\ LET stg == staging[StagingOf(s)].rows
       IN  /\ del' = [del EXCEPT ![s] = @ (+) MatchingRows(target (-) @, stg)]
           /\ ins' = [ins EXCEPT ![s] = @ (-) MatchingRows(@, stg)]
    /\ lpc' = [lpc EXCEPT ![s] = After("delete")]
    /\ UNCHANGED <<target, conn, staging, records, outcome, obs>>

\* INSERT INTO t SELECT * FROM staging_t
CopyStaging(s) ==
    /\ lpc[s] = "copy"
    /\ ins' = [ins EXCEPT ![s] = @ (+) staging[StagingOf(s)].rows]
    /\ lpc' = [lpc EXCEPT ![s] = After("copy")]
    /\ UNCHANGED <<target, conn, staging, del, records, outcome, obs>>

\* a statement of the with-block raises; executemany may have sent some rows
StatementFails(s) ==
    /\ lpc[s] \in TxnSteps
    /\ conn' = [conn EXCEPT ![s] = "intxn"]
    /\ \E sent \in Prefixes(records[s]) :
         staging' = [staging EXCEPT ![StagingOf(s)].rows =
                        IF lpc[s] = "insert" /\ sent # records[s]
                        THEN @ (+) SeqToBag(sent) ELSE @]
    /\ lpc' = [lpc EXCEPT ![s] = "except"]
    /\ obs' = [obs EXCEPT !.failedAt = lpc[s], !.error = StatementError]
    /\ UNCHANGED <<target, del, ins, records, outcome>>

\* conn.commit()
Commit(s) ==
    /\ lpc[s] = "commit"
    /\ target' = Committed(target, del[s], ins[s])
    /\ del' = [del EXCEPT ![s] = EmptyBag]
    /\ ins' = [ins EXCEPT ![s] = EmptyBag]
    /\ conn' = [conn EXCEPT ![s] = "open"]
    /\ lpc' = [lpc EXCEPT ![s] = "finally"]
    /\ UNCHANGED <<staging, records, outcome, obs>>

\* conn.commit() raises: the server may or may not have committed
CommitFails(s) ==
    /\ lpc[s] = "commit"
    /\ \E applied \in BOOLEAN :
         IF applied
         THEN /\ target' = Committed(target, del[s], ins[s])
              /\ del' = [del EXCEPT ![s] = EmptyBag]
              /\ ins' = [ins EXCEPT ![s] = EmptyBag]
              /\ conn' = [conn EXCEPT ![s] = "open"]
         ELSE UNCHANGED <<target, del, ins, conn>>
    /\ lpc' = [lpc EXCEPT ![s] = "except"]
    /\ obs' = [obs EXCEPT !.failedAt = "commit", !.error = StatementError]
    /\ UNCHANGED <<staging, records, outcome>>

\* except: conn.rollback(), then log and re-raise
Rollback(s) ==
    /\ lpc[s] = "except"
    /\ IF conn[s] = "intxn"
       THEN /\ target' = RolledBack(target, del[s], ins[s])
            /\ del' = [del EXCEPT ![s] = EmptyBag]
            /\ ins' = [ins EXCEPT ![s] = EmptyBag]
            /\ staging' = [staging EXCEPT ![StagingOf(s)] = NoStaging]
            /\ conn' = [conn EXCEPT ![s] = "open"]
       ELSE UNCHANGED <<target, del, ins, staging, conn>>
    /\ lpc' = [lpc EXCEPT ![s] = AfterExcept]
    /\ obs' = [obs EXCEPT !.rollbacks = @ + 1]
    /\ UNCHANGED <<records, outcome>>

\* conn.rollback() itself raises (the connection is gone): its exception
\* replaces the one being handled
RollbackFails(s) ==
    /\ lpc[s] = "except"
    /\ lpc' = [lpc EXCEPT ![s] = AfterExcept]
    /\ obs' = [obs EXCEPT !.rollbacks = @ + 1, !.error = ConnectionError]
    /\ UNCHANGED <<target, conn, staging, del, ins, records, outcome>>

\* finally: conn.close(); the session ends, taking an open transaction and
\* the temp table with it
Close(s) ==
    /\ lpc[s] \in {"finally", "finally_exc"}
    /\ conn' = [conn EXCEPT ![s] = "closed"]
    /\ del' = [del EXCEPT ![s] = EmptyBag]
    /\ ins' = [ins EXCEPT ![s] = EmptyBag]
    /\ staging' = [staging EXCEPT ![StagingOf(s)] = NoStaging]
    /\ outcome' = [outcome EXCEPT ![s] = OutcomeOf(lpc[s])]
    /\ lpc' = [lpc EXCEPT ![s] = "returned"]
    /\ UNCHANGED <<target, records, obs>>

----------------------------------------------------------------------------
(* The load harness: serialized calls of load_to_redshift with any rows *)

\* a WeatherRecord of location loc at hour h with temperature v / 1000
Row(loc, h, v) ==
    [recorded_at      |-> h,
     temperature_f    |-> Some(v),
     humidity_pct     |-> Some(55000),
     precipitation_in |-> Some(0),
     wind_speed_mph   |-> None,
     weather_code     |-> Some(3),
     location_name    |-> loc,
     latitude         |-> 42360,
     longitude        |-> -71060]

\* rows the harness hands to load_to_redshift: two values under one natural
\* key, and a row that shares its hour but not its location
HarnessRows ==
    {Row(LocationName, 1, 30000), Row(LocationName, 1, 31000),
     Row("Chicago, IL", 1, 30000)}

HarnessFrames == SeqsUpTo(HarnessRows, MaxLen)

InitSession ==
    /\ lpc = [s \in {1} |-> "idle"]
    /\ conn = [s \in {1} |-> "none"]
    /\ staging = [s \in {1} |-> NoStaging]
    /\ del = [s \in {1} |-> EmptyBag]
    /\ ins = [s \in {1} |-> EmptyBag]
    /\ records = [s \in {1} |-> <<>>]
    /\ outcome = [s \in {1} |-> "none"]
    /\ obs = NoObs

NoExc == [stage |-> "", kind |-> ""]

InitIdleRun ==
    /\ rpc = "off"
    /\ raw = NoDoc
    /\ df = NoFrame
    /\ net = "idle"
    /\ exc = NoExc
    /\ began = EmptyBag
    /\ trace = <<>>

\* tables that pre-exist the first call: any rows, keys possibly repeated
InitTables == {SetToBag(S) : S \in SUBSET HarnessRows}

InitAnyTable ==
    /\ target \in InitTables
    /\ InitSession
    /\ InitIdleRun

InitEmptyTable ==
    /\ target = EmptyBag
    /\ InitSession
    /\ InitIdleRun

CallLoad ==
    /\ \E rows \in HarnessFrames : LoadCall(1, rows)
    /\ UNCHANGED runVars

DoConnect == (\E s \in Sessions : Connect(s)) /\ UNCHANGED runVars
DoConnectFails == (\E s \in Sessions : ConnectFails(s)) /\ UNCHANGED runVars
DoCreateStaging == (\E s \in Sessions : CreateStaging(s)) /\ UNCHANGED runVars
DoInsertStaging == (\E s \in Sessions : InsertStaging(s)) /\ UNCHANGED runVars
DoDeleteMatching == (\E s \in Sessions : DeleteMatching(s)) /\ UNCHANGED runVars
DoCopyStaging == (\E s \in Sessions : CopyStaging(s)) /\ UNCHANGED runVars
DoStatementFails == (\E s \in Sessions : StatementFails(s)) /\ UNCHANGED runVars
DoCommit == (\E s \in Sessions : Commit(s)) /\ UNCHANGED runVars
DoCommitFails == (\E s \in Sessions : CommitFails(s)) /\ UNCHANGED runVars
DoRollback == (\E s \in Sessions : Rollback(s)) /\ UNCHANGED runVars
DoRollbackFails == (\E s \in Sessions : RollbackFails(s)) /\ UNCHANGED runVars
DoClose == (\E s \in Sessions : Close(s)) /\ UNCHANGED runVars

StepLoad ==
    \/ DoConnect
    \/ DoConnectFails
    \/ DoCreateStaging
    \/ DoInsertStaging
    \/ DoDeleteMatching
    \/ DoCopyStaging
    \/ DoStatementFails
    \/ DoCommit
    \/ DoCommitFails
    \/ DoRollback
    \/ DoRollbackFails
    \/ DoClose

NextLoad == CallLoad \/ StepLoad

\* batches in which no natural key is repeated
KeyedFrames ==
    {f \in HarnessFrames : \A i, j \in DOMAIN f : KeyOf(f[i]) = KeyOf(f[j]) => i = j}

\* two callers, each with a session of its own, and a table that holds at
\* most one row per natural key (of the two values the harness has for the
\* shared key, which are alike, the table starts with the first or none)
InitTwoSessions ==
    /\ target \in {t \in InitTables :
                      /\ \A x, y \in DOMAIN t : KeyOf(x) = KeyOf(y) => x = y
                      /\ ~BagIn(Row(LocationName, 1, 31000), t)}
    /\ lpc = [s \in {1, 2} |-> "idle"]
    /\ conn = [s \in {1, 2} |-> "none"]
    /\ staging = [s \in {1, 2} |-> NoStaging]
    /\ del = [s \in {1, 2} |-> EmptyBag]
    /\ ins = [s \in {1, 2} |-> EmptyBag]
    /\ records = [s \in {1, 2} |-> <<>>]
    /\ outcome = [s \in {1, 2} |-> "none"]
    /\ obs = NoObs
    /\ InitIdleRun

\* each caller calls load_to_redshift once, at any moment
CallLoadOnce ==
    /\ \E s \in Sessions, rows \in KeyedFrames :
          /\ lpc[s] = "idle"
          /\ LoadCall(s, rows)
    /\ UNCHANGED runVars

NextConcurrent == CallLoadOnce \/ StepLoad

\* serialized loads against a table with any pre-existing content
Spec == InitAnyTable /\ [][NextLoad]_vars

\* serialized loads against a table that starts empty
SpecEmpty == InitEmptyTable /\ [][NextLoad]_vars

\* two loads against one table, with nothing that serializes them
SpecConcurrent == InitTwoSessions /\ [][NextConcurrent]_vars

----------------------------------------------------------------------------
(* API documents *)

\* the document whose hourly arrays are the columns of the given readings
Doc(cells) ==
    [latitude  |-> 42360,
     longitude |-> -71060,
     hourly    |-> [k \in HourlyKeys |-> [i \in 1..Len(cells) |-> cells[i][k]]]]

\* humidity, wind speed and weather code: all there, one missing, all missing
AuxCells ==
    {[relative_humidity_2m |-> Some(55555), wind_speed_10m |-> Some(12344),
      weather_code |-> Some(3)],
     [relative_humidity_2m |-> None, wind_speed_10m |-> Some(12344),
      weather_code |-> Some(3)],
     [relative_humidity_2m |-> Some(55555), wind_speed_10m |-> None,
      weather_code |-> Some(3)],
     [relative_humidity_2m |-> Some(55555), wind_speed_10m |-> Some(12344),
      weather_code |-> None],
     [relative_humidity_2m |-> None, wind_speed_10m |-> None,
      weather_code |-> None]}

Cell(t, temp, precip, aux) ==
    [time                 |-> t,
     temperature_2m       |-> temp,
     precipitation        |-> precip,
     relative_humidity_2m |-> aux.relative_humidity_2m,
     wind_speed_10m       |-> aux.wind_speed_10m,
     weather_code         |-> aux.weather_code]

FullAux == CHOOSE a \in AuxCells : \A k \in DOMAIN a : ~IsNone(a[k])

\* one hourly reading, any value of it absent
Cells ==
    {Cell(t, temp, precip, aux) :
        t \in TimeEntries, temp \in {None, Some(71235)},
        precip \in {None, Some(0)}, aux \in AuxCells}

\* documents that keep the extractor's contract
Docs == {Doc(cells) : cells \in SeqsUpTo(Cells, MaxN)}

\* readings of the documents a whole run is fed: the temperature varies
RunCells ==
    {Cell(t, temp, None, FullAux) :
        t \in TimeEntries, temp \in {None, Some(30004), Some(31006)}}

RunDocs == {Doc(cells) : cells \in SeqsUpTo(RunCells, MaxN)}

Without(f, k) == [x \in DOMAIN f \ {k} |-> f[x]]

\* one hourly array lost its last entry
Shortened(doc, k) ==
    [doc EXCEPT !.hourly[k] = SubSeq(@, 1, Len(@) - 1)]

SampleDoc ==
    Doc(<<Cell(<<1, 0>>, Some(30004), Some(0), FullAux),
          Cell(<<2, 0>>, None, None, FullAux)>>)

\* documents that break it: a key is missing, or an array is short
BrokenDocs ==
    {Without(SampleDoc, "hourly"), Without(SampleDoc, "latitude")}
        \cup {[SampleDoc EXCEPT !.hourly = Without(@, k)] : k \in HourlyKeys}
        \cup {Shortened(SampleDoc, k) : k \in HourlyKeys}

\* HTTP statuses the archive endpoint may answer with
Statuses == {200, 404, 500}

\* response.raise_for_status(): 4xx and 5xx raise HTTPError
RaisesForStatus(status) == status >= 400 /\ status < 600

ExtractError_lax(data) == "none"

\* what extract_weather_data raises on a parsed body: the log line reads
\* data['hourly']['time']
ExtractError(data) ==
    IF "hourly" \notin DOMAIN data THEN "KeyError"
    ELSE IF "time" \notin DOMAIN data.hourly THEN "KeyError"
    ELSE "none"

----------------------------------------------------------------------------
(* run_pipeline *)

\* where run_pipeline goes when a stage raises: nothing catches it
OnRaise_swallow(stage) == IF stage = "load" THEN "failed" ELSE "load"

OnRaise(stage) == "failed"

\* load_to_redshift is called once transform_weather_data has returned
ReadyToLoad_early == rpc \in {"load", "await"}

ReadyToLoad == rpc = "load"

Raise(stage, kind) ==
    /\ rpc' = OnRaise(stage)
    /\ exc' = [stage |-> stage, kind |-> kind]

\* a run is a fresh process: nothing but the table outlives the one before
RunCall ==
    /\ rpc \in {"ready", "done", "failed"}
    /\ rpc' = "extract"
    /\ raw' = NoDoc
    /\ df' = NoFrame
    /\ exc' = NoExc
    /\ began' = target
    /\ trace' = <<>>
    /\ lpc' = [s \in Sessions |-> "idle"]
    /\ conn' = [s \in Sessions |-> "none"]
    /\ records' = [s \in Sessions |-> <<>>]
    /\ outcome' = [s \in Sessions |-> "none"]
    /\ obs' = [NoObs EXCEPT !.feed = obs.feed]
    /\ UNCHANGED <<target, staging, del, ins, net>>

\* requests.get(url, params=params, timeout=30) is sent
ExtractSend ==
    /\ rpc = "extract"
    /\ net' = "inflight"
    /\ rpc' = "await"
    /\ trace' = Append(trace, "extract:start")
    /\ UNCHANGED <<raw, df, exc, began>>
    /\ UNCHANGED loadVars

\* no answer within the timeout, or no connection: requests.get raises
ExtractTransportFails ==
    /\ rpc = "await"
    /\ net' = "idle"
    /\ Raise("extract", "RequestException")
    /\ UNCHANGED <<raw, df, began, trace>>
    /\ UNCHANGED loadVars

\* the answer arrives with a status for which raise_for_status() raises
ExtractHttpError ==
    /\ rpc = "await"
    /\ \E status \in Statuses : RaisesForStatus(status)
    /\ net' = "idle"
    /\ Raise("extract", "HTTPError")
    /\ UNCHANGED <<raw, df, began, trace>>
    /\ UNCHANGED loadVars

\* a 2xx answer whose body the log line cannot read
ExtractMalformed ==
    /\ rpc = "await"
    /\ \E status \in Statuses, data \in BrokenDocs :
         /\ ~RaisesForStatus(status)
         /\ ExtractError(data) # "none"
    /\ net' = "idle"
    /\ Raise("extract", "KeyError")
    /\ UNCHANGED <<raw, df, began, trace>>
    /\ UNCHANGED loadVars

\* what the "time" array of a returned document is like: "repeated" when an
\* entry occurs twice, "aliased" when its entries differ but two of them are
\* spellings of one instant, "instants" when they parse to different instants
FeedOf(data) ==
    LET col == IF "hourly" \in DOMAIN data /\ "time" \in DOMAIN data.hourly
               THEN data.hourly.time ELSE <<>>
    IN  IF \E i, j \in 1..Len(col) : i # j /\ col[i] = col[j] THEN "repeated"
        ELSE IF \E i, j \in 1..Len(col) :
                    i # j /\ ParseTime(col[i]) = ParseTime(col[j])
             THEN "aliased"
        ELSE "instants"

\* the worse of two such findings
Worse(a, b) ==
    IF "repeated" \in {a, b} THEN "repeated"
    ELSE IF "aliased" \in {a, b} THEN "aliased"
    ELSE "instants"

\* a 2xx answer: extract_weather_data returns the parsed body
ExtractReturns ==
    /\ rpc = "await"
    /\ \E status \in Statuses, data \in RunDocs \cup BrokenDocs :
         /\ ~RaisesForStatus(status)
         /\ ExtractError(data) = "none"
         /\ raw' = data
         /\ obs' = [obs EXCEPT !.feed = Worse(@, FeedOf(data))]
    /\ net' = "idle"
    /\ rpc' = "transform"
    /\ trace' = Append(trace, "extract:end")
    /\ UNCHANGED <<df, exc, began>>
    /\ UNCHANGED <<target, lpc, conn, staging, del, ins, records, outcome>>

\* transform_weather_data(raw, location_name) returns the DataFrame
Transform ==
    /\ rpc = "transform"
    /\ TransformError(raw) = "none"
    /\ df' = transform_weather_data(raw, LocationName)
    /\ rpc' = "load"
    /\ trace' = trace \o <<"transform:start", "transform:end">>
    /\ UNCHANGED <<raw, net, exc, began>>
    /\ UNCHANGED loadVars

\* transform_weather_data raises: a key is missing, the arrays differ in
\* length, or pd.to_datetime rejects a column in mixed spellings
TransformRaises ==
    /\ rpc = "transform"
    /\ \/ /\ TransformError(raw) # "none"
          /\ Raise("transform", TransformError(raw))
       \/ /\ TransformError(raw) = "none"
          /\ MixedSpelling(raw.hourly.time)
          /\ Raise("transform", "ValueError")
    /\ trace' = Append(trace, "transform:start")
    /\ UNCHANGED <<raw, df, net, began>>
    /\ UNCHANGED loadVars

\* the preview is printed and load_to_redshift(df, "weather_hourly") is called
RunLoad ==
    /\ ReadyToLoad
    /\ LoadCall(1, itertuples(df))
    /\ rpc' = "loading"
    /\ raw' = NoDoc
    /\ df' = NoFrame
    /\ trace' = Append(trace, "load:start")
    /\ UNCHANGED <<net, exc, began>>

\* load_to_redshift returns or raises, and so does run_pipeline
RunLoadEnds ==
    /\ rpc = "loading"
    /\ lpc[1] = "returned"
    /\ IF outcome[1] = "ok"
       THEN /\ rpc' = "done"
            /\ trace' = Append(trace, "load:end")
            /\ UNCHANGED exc
       ELSE /\ Raise("load", obs.error)
            /\ UNCHANGED trace
    /\ UNCHANGED <<raw, df, net, began>>
    /\ UNCHANGED loadVars

NextRun ==
    \/ RunCall
    \/ ExtractSend
    \/ ExtractTransportFails
    \/ ExtractHttpError
    \/ ExtractMalformed
    \/ ExtractReturns
    \/ Transform
    \/ TransformRaises
    \/ RunLoad
    \/ RunLoadEnds
    \/ StepLoad

InitRun ==
    /\ target = EmptyBag
    /\ InitSession
    /\ rpc = "ready"
    /\ raw = NoDoc
    /\ df = NoFrame
    /\ net = "idle"
    /\ exc = NoExc
    /\ began = EmptyBag
    /\ trace = <<>>

\* serialized runs of the pipeline against a table that starts empty
SpecRun == InitRun /\ [][NextRun]_vars

\* transform_weather_data on any document, broken ones included
InitTransform ==
    /\ target = EmptyBag
    /\ InitSession
    /\ rpc = "transform"
    /\ raw \in Docs \cup BrokenDocs
    /\ df = NoFrame
    /\ net = "idle"
    /\ exc = NoExc
    /\ began = EmptyBag
    /\ trace = <<>>

NextTransform == Transform \/ TransformRaises

SpecTransform == InitTransform /\ [][NextTransform]_vars

----------------------------------------------------------------------------
(* Properties of load_to_redshift *)

Returned(s, how) == lpc[s] = "returned" /\ outcome[s] = how

RowA == Row(LocationName, 1, 30000)
RowB == Row(LocationName, 1, 31000)

\* rows of tbl stored under natural key k
RowsUnder(tbl, k) == BagOver(tbl, {row \in DOMAIN tbl : KeyOf(row) = k})

\* what one successful load of rows makes of table tbl: the rows of tbl whose
\* key is not re-supplied, and every supplied row
SingleLoad(tbl, rows) ==
    BagOver(tbl, {row \in DOMAIN tbl : \A r \in Range(rows) : KeyOf(r) # KeyOf(row)})
        (+) SeqToBag(rows)

\* C1: idempotence. When load(R, T) has succeeded and the next call, again
\* load(R, T), succeeds too, the table is what the first call left.
C1_Idempotent ==
    (Returned(1, "ok") /\ obs.repeat) => target = obs.before

\* a second successful load of the same two rows sharing one key, on a table
\* that holds them
C1_Witness ==
    /\ Returned(1, "ok")
    /\ obs.repeat
    /\ records[1] = <<RowA, RowB>>
    /\ BagIn(RowA, obs.before)

\* C2: last write wins. After a successful load supplied (L, t) with V1 and
\* the next successful load supplied (L, t) with V2, the table holds exactly
\* one row under (L, t), the one with V2.
C2_LastWriteWins ==
    Returned(1, "ok") =>
        \A r \in obs.resupplied : RowsUnder(target, KeyOf(r)) = SetToBag({r})

\* C3: from an empty table, after any serialized loads, no two rows of the
\* table share a natural key.
C3_UniqueNaturalKey ==
    \A r \in DOMAIN target : BagSize(RowsUnder(target, KeyOf(r))) = 1

\* C4: a load that failed at create-staging, bulk-insert, delete or copy leaves
\* the table as it was when load was called, from the failure until and after
\* its return.
C4_AtomicOnFailure ==
    (lpc[1] \in {"except", "finally_exc", "returned"} /\ obs.failedAt \in TxnSteps)
        => target = obs.before

\* the copy failed after the delete had removed a row of the table
C4_Witness ==
    /\ Returned(1, "raised")
    /\ obs.failedAt = "copy"
    /\ MatchingRows(obs.before, SeqToBag(records[1])) # EmptyBag

\* C6: a failed load(R, T) followed by a successful load(R, T) leaves what a
\* single successful load(R, T) makes of the content before the failed call.
C6_RetrySafe ==
    (Returned(1, "ok") /\ obs.retry) => target = SingleLoad(obs.base, records[1])

\* the retry follows a commit that raised although the server had committed
C6_Witness ==
    /\ Returned(1, "ok")
    /\ obs.retry
    /\ records[1] # <<>>
    /\ obs.base # obs.before

\* C7: after a committed load every supplied row is in the table, all nine
\* columns as supplied, as many times as it was supplied.
C7_NoRowLost ==
    Returned(1, "ok") =>
        \A r \in Range(records[1]) :
            CopiesIn(r, target) >= CopiesIn(r, SeqToBag(records[1]))

\* the load re-supplied a row the table already held, so the delete removed it
C7_Witness ==
    /\ Returned(1, "ok")
    /\ \E r \in Range(records[1]) : BagIn(r, obs.before)

----------------------------------------------------------------------------
(* Properties of run_pipeline *)

\* C5: once the extractor or the transformer has raised, the run has failed
\* with that exception, load_to_redshift was not called in it, and the table
\* is as it was when the run began.
C5_FailureIsolation ==
    exc.stage \in {"extract", "transform"} =>
        /\ rpc = "failed"
        /\ exc.kind # ""
        /\ \A i \in 1..Len(trace) : trace[i] # "load:start"
        /\ lpc[1] = "idle"
        /\ target = began

\* a non-2xx answer ends a run against a table that earlier runs had filled
C5_Witness ==
    /\ rpc = "failed"
    /\ exc = [stage |-> "extract", kind |-> "HTTPError"]
    /\ began # EmptyBag

StageSequence ==
    <<"extract:start", "extract:end", "transform:start", "transform:end",
      "load:start", "load:end">>

\* the session of load_to_redshift is between connect and close
DbBusy == conn[1] \in {"open", "intxn"}

\* C10: the stages of a run start and end in the order extract, transform,
\* load, each at most once, a stage starting only when the one before has
\* ended; the HTTP request and the database session are never open together.
C10_StageOrder ==
    /\ Len(trace) <= Len(StageSequence)
    /\ \A i \in 1..Len(trace) : trace[i] = StageSequence[i]
    /\ ~(net = "inflight" /\ DbBusy)
    /\ DbBusy => Len(trace) = 5
    /\ net = "inflight" => trace = <<"extract:start">>

\* a run went through all three stages and wrote rows
C10_Witness ==
    /\ rpc = "done"
    /\ trace = StageSequence
    /\ target # began

----------------------------------------------------------------------------
(* Properties of transform_weather_data *)

Transformed == rpc = "load"

BothAbsent(doc, i) ==
    IsNone(doc.hourly.temperature_2m[i]) /\ IsNone(doc.hourly.precipitation[i])

\* the indexes of the readings with a temperature or a precipitation
Live(doc) == {i \in 1..Len(doc.hourly.time) : ~BothAbsent(doc, i)}

\* the j-th smallest member of a set of indexes
Nth(S, j) == CHOOSE i \in S : Cardinality({k \in S : k <= i}) = j

\* the record of reading i: its own timestamp and its own measurements, as
\* the transformer renders them (timestamp parsed, four numerics rounded)
Reading(doc, i, location_name) ==
    [recorded_at      |-> ParseTime(doc.hourly.time[i]),
     temperature_f    |-> RoundCell(doc.hourly.temperature_2m[i]),
     humidity_pct     |-> RoundCell(doc.hourly.relative_humidity_2m[i]),
     precipitation_in |-> RoundCell(doc.hourly.precipitation[i]),
     wind_speed_mph   |-> RoundCell(doc.hourly.wind_speed_10m[i]),
     weather_code     |-> doc.hourly.weather_code[i],
     location_name    |-> location_name,
     latitude         |-> doc.latitude,
     longitude        |-> doc.longitude]

C9_PositionalAlignment ==
    Transformed =>
        /\ FrameLen(df) = Cardinality(Live(raw))
        /\ \A c \in Columns : Len(df[c]) = FrameLen(df)
        /\ \A j \in 1..FrameLen(df) :
              itertuples(df)[j] = Reading(raw, Nth(Live(raw), j), LocationName)

\* the first reading is left out and the second, which differs from it in
\* its timestamp, is kept
C9_Witness ==
    /\ Transformed
    /\ Len(raw.hourly.time) >= 2
    /\ BothAbsent(raw, 1)
    /\ ~BothAbsent(raw, 2)
    /\ raw.hourly.time[1] # raw.hourly.time[2]
    /\ df.temperature_f # <<>>

----------------------------------------------------------------------------
(* Properties of the exits of load_to_redshift *)

\* the try block of the call raised: a statement or the commit failed
FailedInTxn == obs.failedAt \in TxnSteps \cup {"commit"}

\* C11, as claimed: a failure inside the transaction is caught once, a
\* rollback is run before it leaves load_to_redshift, it reaches the caller
\* as a LoadError wrapping its cause, and the call never returns normally.
C11_LoadErrorWraps ==
    (lpc[1] = "returned" /\ FailedInTxn) =>
        /\ outcome[1] = "raised"
        /\ obs.rollbacks = 1
        /\ obs.error = "LoadError"

\* C11, amended: a failure inside the transaction never continues on the
\* success path; conn.rollback() is called exactly once before it leaves;
\* the call ends raising, and what reaches the caller is no wrapper but the
\* exception itself: the statement's own when the rollback ran, the
\* rollback's when conn.rollback() raised.
C11_ReraisedUnwrapped ==
    FailedInTxn =>
        /\ lpc[1] \in {"except", "finally_exc", "returned"}
        /\ lpc[1] = "except" => obs.rollbacks = 0
        /\ lpc[1] # "except" => obs.rollbacks = 1
        /\ lpc[1] = "returned" =>
              /\ outcome[1] = "raised"
              /\ obs.error \in {StatementError, ConnectionError}
              /\ obs.error = StatementError \/ conn[1] = "closed"

\* the copy statement failed, the rollback ran, and the call has raised the
\* statement's exception over a table that held rows
C11_Witness ==
    /\ Returned(1, "raised")
    /\ obs.failedAt = "copy"
    /\ obs.rollbacks = 1
    /\ obs.error = StatementError
    /\ obs.before # EmptyBag

----------------------------------------------------------------------------
(* Properties of malformed documents *)

\* the document lacks the hourly structure or one of its five measurement
\* arrays
LacksMeasurements(doc) ==
    /\ doc # NoDoc
    /\ \/ "hourly" \notin DOMAIN doc
       \/ \E k \in MeasureKeys : k \notin DOMAIN doc.hourly

TransformStarted == \E i \in 1..Len(trace) : trace[i] = "transform:start"

LoadStarted == \E i \in 1..Len(trace) : trace[i] = "load:start"

\* C12, as claimed: a 2xx answer without the hourly structure, or without one
\* of the five measurement arrays, makes extract_weather_data fail with
\* MalformedResponseError, so the transformer is never started on it.
C12_RejectedAtExtractor ==
    /\ ~LacksMeasurements(raw)
    /\ (exc.stage = "extract" /\ exc.kind \notin {"RequestException", "HTTPError"})
          => exc.kind = "MalformedResponseError"

\* C12, amended: extract_weather_data rejects, with KeyError, only the 2xx
\* answers in which hourly or hourly.time is missing, and the transformer is
\* not started on those; an answer that lacks one of the five measurement
\* arrays is returned, the transformer is started on it and fails with
\* KeyError, and the run ends there with the table untouched.
C12_RejectedWhereRead ==
    /\ raw # NoDoc => ("hourly" \in DOMAIN raw /\ "time" \in DOMAIN raw.hourly)
    /\ (exc.stage = "extract" /\ exc.kind = "KeyError") =>
          (raw = NoDoc /\ ~TransformStarted /\ rpc = "failed")
    /\ (LacksMeasurements(raw) /\ TransformStarted) =>
          /\ rpc = "failed"
          /\ exc = [stage |-> "transform", kind |-> "KeyError"]
          /\ ~LoadStarted
          /\ target = began

\* a run over a filled table whose 2xx answer had no temperature_2m array:
\* the extractor let it through and the transformer raised KeyError
C12_Witness ==
    /\ rpc = "failed"
    /\ exc = [stage |-> "transform", kind |-> "KeyError"]
    /\ LacksMeasurements(raw)
    /\ "temperature_2m" \notin DOMAIN raw.hourly
    /\ began # EmptyBag

----------------------------------------------------------------------------
(* Properties of documents with arrays of unequal length *)

\* all six hourly arrays are there and they are not all of one length
UnequalLengths(doc) ==
    /\ "hourly" \in DOMAIN doc
    /\ HourlyKeys \subseteq DOMAIN doc.hourly
    /\ \E k \in MeasureKeys : Len(doc.hourly[k]) # Len(doc.hourly.time)

\* C13, as claimed: transform_weather_data fails with ValidationError, and
\* produces no records, whenever the time array and the five measurement
\* arrays are not all of the same length.
C13_ValidationError ==
    (UnequalLengths(raw) /\ rpc # "transform") =>
        /\ rpc = "failed"
        /\ exc = [stage |-> "transform", kind |-> "ValidationError"]
        /\ df = NoFrame

\* C13, amended: transform_weather_data fails, with the ValueError the
\* DataFrame constructor raises, and produces no records, whenever the time
\* array and the five measurement arrays are not all of the same length.
C13_ValueError ==
    (UnequalLengths(raw) /\ rpc # "transform") =>
        /\ rpc = "failed"
        /\ exc = [stage |-> "transform", kind |-> "ValueError"]
        /\ df = NoFrame

\* the precipitation array is one short of the time array, whose entries are
\* in one spelling, and the call has raised
C13_Witness ==
    /\ rpc = "failed"
    /\ UnequalLengths(raw)
    /\ Len(raw.hourly.precipitation) < Len(raw.hourly.time)
    /\ ~MixedSpelling(raw.hourly.time)
    /\ exc.kind = "ValueError"

----------------------------------------------------------------------------
(* Properties of two concurrent callers *)

\* no two rows of tbl share a natural key
UniqueKeys(tbl) ==
    \A row \in DOMAIN tbl : BagSize(RowsUnder(tbl, KeyOf(row))) = 1

\* C14: two loads whose records share a natural key, interleaved so that each
\* runs its delete before the other's copy is committed, can leave two
\* committed rows under that key; when neither call begins while the other is
\* under way, the table keeps at most one row per key.
C14_SerializedLoadsKeepKeysUnique ==
    ~obs.overlap => UniqueKeys(target)

\* both calls have returned normally, they overlapped, each supplied one
\* value for the same key, and the table holds both
C14_Witness ==
    /\ Returned(1, "ok")
    /\ Returned(2, "ok")
    /\ obs.overlap
    /\ records[1] = <<RowA>>
    /\ records[2] = <<RowB>>
    /\ target = SetToBag({RowA, RowB})

----------------------------------------------------------------------------
(* Frame of load_to_redshift *)

RowC == Row("Chicago, IL", 1, 30000)

\* the natural key of row is the key of none of the rows supplied
NotSupplied(row, rows) == \A r \in Range(rows) : KeyOf(r) # KeyOf(row)

\* C15: a successful load leaves every row whose natural key is the key of
\* no supplied record as it was, in as many copies; only rows under a
\* re-supplied key are removed.
C15_Frame ==
    Returned(1, "ok") =>
        \A row \in DOMAIN obs.before \cup DOMAIN target :
            NotSupplied(row, records[1]) =>
                CopiesIn(row, target) = CopiesIn(row, obs.before)

\* a load of one Boston row into a table that held another value under its
\* key and a Chicago row of the same hour: the Chicago row is still there,
\* the other Boston value is gone
C15_Witness ==
    /\ Returned(1, "ok")
    /\ records[1] = <<RowA>>
    /\ BagIn(RowB, obs.before)
    /\ BagIn(RowC, obs.before)
    /\ BagIn(RowC, target)
    /\ ~BagIn(RowB, target)

----------------------------------------------------------------------------
(* Lifetime of the staging relation *)

\* C16: the staging relation of a call belongs to the call's session alone:
\* it exists only while that session is connected, it holds only rows of
\* that call's records, and once the call has returned, by commit or by
\* rollback, its session holds no staging relation and no staging row,
\* whatever another session is doing.
C16_StagingLifetime ==
    \A s \in Sessions :
        /\ lpc[s] \in {"idle", "returned"} => staging[s] = NoStaging
        /\ staging[s].exists => conn[s] \in {"open", "intxn"}
        /\ \A row \in DOMAIN staging[s].rows : row \in Range(records[s])

\* the first caller's load has committed and returned, leaving nothing
\* behind, while the second caller's staging relation holds its own row
C16_Witness ==
    /\ Returned(1, "ok")
    /\ records[1] = <<RowA>>
    /\ staging[1] = NoStaging
    /\ staging[2] = [exists |-> TRUE, rows |-> SetToBag({RowB})]
    /\ BagIn(RowA, target)

----------------------------------------------------------------------------
(* Key uniqueness over whole runs *)

\* the rows of the DataFrame have pairwise distinct natural keys
DistinctKeys(frame) ==
    \A i, j \in 1..FrameLen(frame) :
        KeyOf(itertuples(frame)[i]) = KeyOf(itertuples(frame)[j]) => i = j

----------------------------------------------------------------------------
(* Release of the connection *)

\* C18: whichever way load_to_redshift ends once psycopg.connect has
\* returned (the commit went through, a step failed and the rollback ran, or
\* the rollback itself raised), the connection is closed when control is back
\* with the caller; a connection is open only while the call is under way.
C18_ConnectionReleased ==
    \A s \in Sessions :
        /\ (lpc[s] = "returned" /\ obs.failedAt # "connect") => conn[s] = "closed"
        /\ conn[s] \in {"open", "intxn"} => lpc[s] \notin {"idle", "returned"}

\* the bulk insert failed, conn.rollback() raised in its turn, and the call
\* has ended with the connection closed
C18_Witness ==
    /\ Returned(1, "raised")
    /\ obs.failedAt = "insert"
    /\ obs.error = ConnectionError
    /\ conn[1] = "closed"

====
